---- MODULE Spec2Model ----
(***************************************************************************)
(* Model of MessageLabel (scramblewriter.py): the label that reveals a     *)
(* text behind a stream of random printable garbage.  A string is a        *)
(* sequence of code points; Python's 0-based positions are kept in the     *)
(* program's values (splitpoints, indices) and shifted by one only when a  *)
(* TLA+ sequence is accessed.                                              *)
(***************************************************************************)
EXTENDS Integers, Sequences, FiniteSets

VARIABLES actual_text,   \* self.actual_text
          delay_arg,     \* the delay argument __init__ was called with
          delay,         \* self.delay
          splitpoints,   \* self.splitpoints
          shown_length,  \* self._shown_length
          text,          \* the QLabel's text, as last passed to setText
          garbage,       \* the garbage list of the last setter call
          writes,        \* the indices the last setter call assigned '\n' to
          error,         \* "none", or the exception the last call raised
          direction,     \* self.anim direction
          anim_state     \* self.anim state

vars == <<actual_text, delay_arg, delay, splitpoints, shown_length, text,
          garbage, writes, error, direction, anim_state>>

----------------------------------------------------------------------------
(* Bounds *)

MaxLen == 3        \* longest text constructed
NumDraws == 2      \* number of distinct code points the random draws use
Overshoot == 1     \* how far outside [0, end] the setter's argument goes

----------------------------------------------------------------------------
(* Code points *)

NL == 10           \* '\n'
SP == 32           \* ' '
LetterA == 97      \* 'a'

TextChars == {NL, SP, LetterA}

RangeLo == 33
RangeHi == 127

\* range(32, 127): the draw would include the space
GarbageRangeWithSpace == (RangeLo - 1)..(RangeHi - 1)

\* range(33, 127)
GarbageRange == RangeLo..(RangeHi - 1)

SetMin(S) == CHOOSE x \in S : \A y \in S : x <= y
SetMax(S) == CHOOSE x \in S : \A y \in S : x >= y

\* The code points random.choice is let to return here: the lowest NumDraws-1
\* of the range and its highest.
DrawSet == {c \in GarbageRange : c < SetMin(GarbageRange) + NumDraws - 1}
             \cup {SetMax(GarbageRange)}

Min(a, b) == IF a <= b THEN a ELSE b

----------------------------------------------------------------------------
(* Python built-ins the code relies on *)

\* len(range(n)): empty for n <= 0
PyRangeLen(n) == IF n < 0 THEN 0 ELSE n

\* s[:n]
PySlice(s, n) ==
    IF n >= 0 THEN SubSeq(s, 1, Min(n, Len(s)))
    ELSE SubSeq(s, 1, IF Len(s) + n < 0 THEN 0 ELSE Len(s) + n)

\* lst[i] = x on the running state st = [g, writes, err]: a negative index
\* within -len..-1 wraps around, any other index outside the list raises.
PyListAssign(st, i, x) ==
    LET n == Len(st.g) IN
    IF i >= 0 /\ i < n
      THEN [st EXCEPT !.g = [@ EXCEPT ![i + 1] = x], !.writes = @ \cup {i}]
    ELSE IF i < 0 /\ i >= -n
      THEN [st EXCEPT !.g = [@ EXCEPT ![n + i + 1] = x], !.writes = @ \cup {i}]
    ELSE [st EXCEPT !.writes = @ \cup {i}, !.err = "IndexError"]

\* s.split('\n'), scanning from position i with the line cur under way
RECURSIVE SplitFrom(_, _, _)
SplitFrom(s, i, cur) ==
    IF i > Len(s) THEN <<cur>>
    ELSE IF s[i] = NL THEN <<cur>> \o SplitFrom(s, i + 1, <<>>)
    ELSE SplitFrom(s, i + 1, Append(cur, s[i]))

Split(s) == SplitFrom(s, 1, <<>>)

----------------------------------------------------------------------------
(* MessageLabel.__init__ *)

\* 'if delay > 0' in place of 'if delay >= 0'
NormalizeDelayStrict(d, t) ==
    IF d > 0 THEN Min(d, Len(t)) ELSE Len(t)

\* the supplied delay taken as it is when non-negative
NormalizeDelayNoMin(d, t) ==
    IF d >= 0 THEN d ELSE Len(t)

NormalizeDelay(d, t) ==
    IF d >= 0 THEN Min(d, Len(t)) ELSE Len(t)

RECURSIVE Accumulate(_, _, _)
Accumulate(line_splits, i, current_point) ==
    IF i > Len(line_splits) THEN <<>>
    ELSE LET cp == current_point + Len(line_splits[i]) IN
         <<cp>> \o Accumulate(line_splits, i + 1, cp + 1)

SplitPoints(t) == Accumulate(Split(t), 1, 0)

\* self.splitpoints[:-1]
Interior(sp) == PySlice(sp, -1)

EndValue(t, d) == Len(t) + d

----------------------------------------------------------------------------
(* MessageLabel.shown_length (setter) *)

\* range(value + 1) in the garbage phase
GarbageCountAOneMore(value) == value + 1

\* range(value)
GarbageCountA(value) == value

\* the tail one longer than the code computes
GarbageCountBOneMore(t, d, value) == Min(Len(t) + d - value + 1, d)

\* the tail without the min against the runway left
GarbageCountBNoMin(t, d, value) == d

\* the tail without the min against the delay
GarbageCountBNoCap(t, d, value) == Len(t) + d - value

\* range(min(len(self.actual_text) + self.delay - value, self.delay))
GarbageCountB(t, d, value) == Min(Len(t) + d - value, d)

\* 'if num < value'
GuardA(num, value) == num < value

\* the reveal-phase guard without 'and num < value'
GuardBNoUpper(num, non_garbage, value) == num - non_garbage > 0

\* 'if num - non_garbage > 0 and num < value'
GuardB(num, non_garbage, value) == num - non_garbage > 0 /\ num < value

\* self.actual_text[:value - self.delay - 1]
RevealedPrefixShort(t, d, value) == PySlice(t, value - d - 1)

\* self.actual_text[:value - self.delay]
RevealedPrefix(t, d, value) == PySlice(t, value - d)

\* for num in self.splitpoints[:-1]: if num < value: garbage[num] = '\n'
RECURSIVE RetainA(_, _, _, _)
RetainA(points, i, value, st) ==
    IF i > Len(points) \/ st.err # "none" THEN st
    ELSE IF GuardA(points[i], value)
      THEN RetainA(points, i + 1, value, PyListAssign(st, points[i], NL))
    ELSE RetainA(points, i + 1, value, st)

\* for num in self.splitpoints[:-1]:
\*     if num - non_garbage > 0 and num < value:
\*         garbage[num - non_garbage] = '\n'
RECURSIVE RetainB(_, _, _, _, _)
RetainB(points, i, non_garbage, value, st) ==
    IF i > Len(points) \/ st.err # "none" THEN st
    ELSE IF GuardB(points[i], non_garbage, value)
      THEN RetainB(points, i + 1, non_garbage, value,
                   PyListAssign(st, points[i] - non_garbage, NL))
    ELSE RetainB(points, i + 1, non_garbage, value, st)

\* Number of random draws one call of the setter makes.
DrawCount(t, d, value) ==
    IF value < d THEN PyRangeLen(GarbageCountA(value))
    ELSE PyRangeLen(GarbageCountB(t, d, value))

\* The setter's body for the draws given: the garbage list as left by the
\* line-break loop, the indices assigned, the exception raised if any, and
\* the string handed to setText.
SetterResult(t, d, sp, value, draws) ==
    LET st0 == [g |-> draws, writes |-> {}, err |-> "none"] IN
    IF value < d
      THEN LET st == RetainA(Interior(sp), 1, value, st0) IN
           [g |-> st.g, writes |-> st.writes, err |-> st.err, out |-> st.g]
    ELSE LET st == RetainB(Interior(sp), 1, value - d, value, st0) IN
         [g |-> st.g, writes |-> st.writes, err |-> st.err,
          out |-> RevealedPrefix(t, d, value) \o st.g]

\* self.shown_length = value, with every outcome of the random draws
ApplySetter(value) ==
    \E draws \in [1..DrawCount(actual_text, delay, value) -> DrawSet] :
        LET r == SetterResult(actual_text, delay, splitpoints, value, draws) IN
        /\ shown_length' = value
        /\ garbage' = r.g
        /\ writes' = r.writes
        /\ error' = r.err
        /\ text' = IF r.err = "none" THEN r.out ELSE text

----------------------------------------------------------------------------
(* State machine *)

Texts == UNION {[1..n -> TextChars] : n \in 0..MaxLen}

DelayArgs == -1..(MaxLen + 1)

\* The label as __init__ leaves it: the metadata derived, then
\* self.shown_length = 0 run through the setter (no draw is made for 0).
Init ==
    \E t \in Texts, d \in DelayArgs :
        LET nd == NormalizeDelay(d, t)
            sp == SplitPoints(t)
            r  == SetterResult(t, nd, sp, 0, <<>>) IN
        /\ actual_text = t
        /\ delay_arg = d
        /\ delay = nd
        /\ splitpoints = sp
        /\ shown_length = 0
        /\ garbage = r.g
        /\ writes = r.writes
        /\ error = r.err
        /\ text = IF r.err = "none" THEN r.out ELSE t
        /\ direction = "Forward"
        /\ anim_state = "Stopped"

\* toggle_anim(toggling): set the direction and start the animation
toggle_anim(toggling) ==
    /\ direction' = IF toggling THEN "Forward" ELSE "Backward"
    /\ anim_state' = "Running"
    /\ UNCHANGED <<actual_text, delay_arg, delay, splitpoints, shown_length,
                   text, garbage, writes, error>>

\* The running animation writes an interpolated value between its start value
\* 0 and its end value len(text) + delay, and stops at the bound it plays to.
AnimTick ==
    /\ anim_state = "Running"
    /\ \E value \in 0..EndValue(actual_text, delay) :
        /\ ApplySetter(value)
        /\ anim_state' =
             IF \/ direction = "Forward" /\ value = EndValue(actual_text, delay)
                \/ direction = "Backward" /\ value = 0
             THEN "Stopped" ELSE "Running"
    /\ UNCHANGED <<actual_text, delay_arg, delay, splitpoints, direction>>

\* Any caller assigning the property, inside or outside the animation's range
SetShownLength ==
    /\ \E value \in (-Overshoot)..(EndValue(actual_text, delay) + Overshoot) :
        ApplySetter(value)
    /\ UNCHANGED <<actual_text, delay_arg, delay, splitpoints, direction,
                   anim_state>>

Next ==
    \/ \E toggling \in BOOLEAN : toggle_anim(toggling)
    \/ AnimTick
    \/ SetShownLength

Spec == Init /\ [][Next]_vars

TypeOK ==
    /\ actual_text \in Texts
    /\ delay_arg \in DelayArgs
    /\ delay \in Int
    /\ shown_length \in Int
    /\ error \in {"none", "IndexError"}
    /\ direction \in {"Forward", "Backward"}
    /\ anim_state \in {"Stopped", "Running"}

----------------------------------------------------------------------------
(* Properties *)

Cursor == shown_length
TextLen == Len(actual_text)
End == EndValue(actual_text, delay)
InRange == Cursor >= 0 /\ Cursor <= End
RegimeA == InRange /\ Cursor < delay
RegimeB == InRange /\ Cursor >= delay
Revealed == Cursor - delay
InteriorSet == {Interior(splitpoints)[i] : i \in 1..Len(Interior(splitpoints))}

\* C1: with the cursor at len(T) + delay the displayed string is exactly T,
\* line breaks included, whatever the random draws were.
C1_FullReveal ==
    Cursor = End => error = "none" /\ text = actual_text

\* C1 witness: a multi-line text with a garbage budget played to its end.
C1_Witness ==
    /\ Cursor = End
    /\ delay > 0
    /\ TextLen = MaxLen
    /\ InteriorSet # {}
    /\ text = actual_text

\* C2: for every interior boundary b and cursor c with b < c <= len(T) + delay
\* the displayed string has a line break at position b, in both regimes.
C2_ParagraphPreserved ==
    InRange =>
        \A b \in InteriorSet :
            b < Cursor => Len(text) > b /\ text[b + 1] = NL

\* C3: in the reveal phase the first c - d displayed characters are
\* T[0 : c-d]; neither the tail nor the forced line breaks touch them.
C3_RevealedPrefix ==
    RegimeB =>
        /\ error = "none"
        /\ Len(text) >= Revealed
        /\ SubSeq(text, 1, Revealed) = SubSeq(actual_text, 1, Revealed)

\* C3 witness: a revealed prefix followed by a tail that got a forced break.
C3_Witness ==
    /\ RegimeB
    /\ Revealed >= 1
    /\ Len(garbage) >= 1
    /\ writes # {}
    /\ SubSeq(text, 1, Revealed) = SubSeq(actual_text, 1, Revealed)

\* C4: the stored delay is within 0..len(text): len(text) for a negative
\* argument, min(argument, len(text)) otherwise; setter calls and toggle_anim
\* leave it at that value.
C4_DelayNormalized ==
    /\ delay >= 0
    /\ delay <= TextLen
    /\ delay_arg < 0 => delay = TextLen
    /\ delay_arg >= 0 => delay = Min(delay_arg, TextLen)

\* C4 witness: an argument above the text length, after the setter has run
\* and the animation was toggled backward.
C4_Witness ==
    /\ delay_arg > TextLen
    /\ TextLen > 0
    /\ delay = TextLen
    /\ Cursor > 0
    /\ direction = "Backward"

\* C5: a cursor below 0 raises nothing and displays the empty string (what
\* cursor 0 displays); a cursor above len(T) + delay raises nothing and
\* displays exactly T.
C5_Clamped ==
    /\ Cursor <= 0 => error = "none" /\ text = <<>>
    /\ Cursor >= End => error = "none" /\ text = actual_text

\* C5 witness: the setter called above the end value of a text with garbage.
C5_Witness ==
    /\ Cursor > End
    /\ delay > 0
    /\ InteriorSet # {}
    /\ text = actual_text

\* C6 as stated: in the reveal phase the tail has min(len(T)+delay-c, delay)
\* characters and is empty if and only if the cursor is at its end value.
C6_TailEmptyOnlyAtEnd ==
    RegimeB =>
        /\ Len(garbage) = Min(TextLen + delay - Cursor, delay)
        /\ Len(garbage) = 0 <=> Cursor = End

\* C6 amended: in the reveal phase the tail has min(len(T)+delay-c, delay)
\* characters and is empty if and only if the cursor is at its end value or
\* the delay is 0.
C6_TailCount ==
    RegimeB =>
        /\ Len(garbage) = Min(TextLen + delay - Cursor, delay)
        /\ Len(garbage) = 0 <=> (Cursor = End \/ delay = 0)

\* C6 witness: delay 0, the cursor set strictly inside the range, no tail.
C6_Witness ==
    /\ RegimeB
    /\ delay = 0
    /\ Cursor > 0
    /\ Cursor < End
    /\ Len(garbage) = 0

\* C7 as stated: the empty string constructs without error into an empty
\* splitpoints list and delay 0.
C7_EmptyTextNoBoundaries ==
    actual_text = <<>> =>
        error = "none" /\ splitpoints = <<>> /\ delay = 0

\* C7 amended: the empty string constructs without error into splitpoints
\* holding only the end-of-text entry 0, so no interior boundary, and delay 0.
C7_EmptyTextSentinelOnly ==
    actual_text = <<>> =>
        /\ error = "none"
        /\ splitpoints = <<0>>
        /\ Interior(splitpoints) = <<>>
        /\ delay = 0

\* C7 witness: the empty string constructed with a positive delay argument.
C7_Witness ==
    /\ actual_text = <<>>
    /\ delay_arg > 0
    /\ delay = 0
    /\ text = <<>>

\* Output positions (0-based) holding garbage: all of them in the garbage
\* phase, those after the revealed prefix in the reveal phase.
GarbagePositions ==
    IF Cursor < delay THEN 0..(Len(text) - 1) ELSE Revealed..(Len(text) - 1)

\* C8: every garbage character is a code point in 33..126 or a line break,
\* and a line break only at an interior boundary b with b < cursor.
C8_GarbageCharacters ==
    InRange =>
        \A p \in GarbagePositions :
            \/ text[p + 1] >= 33 /\ text[p + 1] <= 126
            \/ text[p + 1] = NL /\ p \in InteriorSet /\ p < Cursor

\* C8 witness: a tail holding both a drawn symbol and a forced line break.
C8_Witness ==
    /\ RegimeB
    /\ Revealed >= 1
    /\ \E p \in GarbagePositions : text[p + 1] = NL
    /\ \E p \in GarbagePositions : text[p + 1] = SetMax(GarbageRange)

\* C9: for a cursor c in [0, len(T) + delay] the displayed string has
\* exactly min(c, len(T)) characters.
C9_DisplayLength ==
    InRange => error = "none" /\ Len(text) = Min(Cursor, TextLen)

\* C9 witness: the cursor past len(T) and short of the end, T's length shown.
C9_Witness ==
    /\ Cursor > TextLen
    /\ Cursor < End
    /\ TextLen >= 2
    /\ Len(text) = TextLen

\* C10: every forced line-break assignment lands inside the garbage list:
\* no index error, no negative index.
C10_WritesInsideGarbage ==
    InRange =>
        /\ error = "none"
        /\ \A i \in writes : i >= 0 /\ i < Len(garbage)

\* C10 witness: a forced break written while the cursor is past len(T) and
\* the tail is shorter than the delay.
C10_Witness ==
    /\ RegimeB
    /\ Cursor > TextLen
    /\ Len(garbage) < delay
    /\ writes # {}
    /\ \A i \in writes : i >= 0 /\ i < Len(garbage)

====
